---- MODULE Spec2Model ----
(***************************************************************************)
(* The three programs of the repository (video_decode, video_encode,       *)
(* video_hw_decode) as one state machine.  Each run executes one program   *)
(* (prog).  The codec engine, the parser and the container reader are      *)
(* library calls; their results are chosen nondeterministically within the *)
(* send/receive contract of libavcodec (0, AVERROR(EAGAIN), AVERROR_EOF,   *)
(* other negative values).                                                 *)
(***************************************************************************)
EXTENDS Integers, Sequences, FiniteSets, TLC

(* ------------------------------ bounds ------------------------------- *)
\* longest raw input byte stream of the decode program
MaxLen == 4
\* largest read chunk size tried for INBUF_SIZE (4096 in the source)
MaxInbuf == 3
\* most frames (packets) one submission adds to the engine's hidden buffer
MaxGen == 1
\* most packets in the container of the hardware decode program
MaxPkts == 3
\* most packets in an encoded file given to the decode program
MaxTrip == 3

(* ------------------------- program constants ------------------------- *)
\* AV_INPUT_BUFFER_PADDING_SIZE, scaled
AV_INPUT_BUFFER_PADDING_SIZE == 2
\* number of frames the encode program submits: for (i = 0; i < 25; i++)
NumFrames == 25

Byte == {0, 1}
\* the byte value that starts a compressed packet in the raw stream
StartCode == 1

Min(a, b) == IF a < b THEN a ELSE b

RECURSIVE SeqsUpTo(_, _)
SeqsUpTo(S, n) ==
    IF n = 0 THEN {<<>>}
    ELSE LET shorter == SeqsUpTo(S, n - 1)
         IN  shorter \cup {Append(s, x) : s \in {t \in shorter : Len(t) = n - 1}, x \in S}

VARIABLES
    prog,          \* which program runs: "decode", "encode", "hwdecode"
    pc,            \* position in main / the pump
    exitCode,      \* value handed to exit() or returned by main (-99 while running)
    diag,          \* number of diagnostic lines written to stderr
    cause,         \* the fatal condition that occurred, "none" when none did
    \* ---- the codec engine (AVCodecContext) ----
    hidden,        \* outputs buffered inside the engine, not yet retrievable
    ready,         \* outputs the engine has made available to receive
    produced,      \* number of outputs the engine has created so far
    flushed,       \* the engine has accepted the flush signal
    frame_number,  \* AVCodecContext.frame_number: frames returned so far
    \* ---- observation of the calls made on the engine ----
    nsubmit,       \* number of avcodec_send_* calls made
    nrecv,         \* number of avcodec_receive_* calls made
    flushCount,    \* number of flush signals (NULL submissions) sent
    lastSubmit,    \* "none", "data" or "flush": the last submission made
    flushLeft,     \* upstream input not yet read when the flush was sent
    lastOutcome,   \* outcome of the last receive call
    lastCall,      \* "none", "submit" or "receive": the last call on the engine
    eofSeen,       \* a receive call has returned AVERROR_EOF
    sink,          \* what was written: artifacts, packets, trailer bytes
    \* ---- decode program ----
    input,         \* the raw byte stream of the input file
    INBUF_SIZE,    \* read chunk size
    inbuf,         \* the buffer inbuf[INBUF_SIZE + AV_INPUT_BUFFER_PADDING_SIZE]
    fpos,          \* file position of f
    feofFlag,      \* feof(f)
    data,          \* offset of the cursor `data` in inbuf
    data_size,     \* bytes of the chunk not yet consumed by the parser
    acc,           \* parser cursor state: bytes of the packet being assembled
    pkt,           \* pkt->data/pkt->size as a byte sequence
    flushing,      \* the call of decode()/encode() in progress got NULL
    consumed,      \* bytes consumed by the parser so far, in call order
    pkts,          \* packets submitted to the engine so far
    yields,        \* frames made available by each submission so far
    stalled,       \* parity of the parse calls in a row that consumed nothing
    \* ---- encode program ----
    i,             \* loop counter of the frame loop
    \* ---- hardware decode program ----
    container,     \* stream index of each packet of the input container
    rd,            \* packets read from the container so far
    ret,           \* main's ret
    configs,       \* hardware configurations of the decoder, in index order
    hw_pix_fmt,    \* the static hw_pix_fmt
    \* ---- objects held by the program ----
    res            \* packet, frames, buffer, engine handle, device, output file

engVars == <<hidden, ready, produced, flushed, frame_number>>
obsVars == <<nsubmit, nrecv, flushCount, lastSubmit, flushLeft, lastOutcome, lastCall,
             eofSeen>>
decVars == <<input, INBUF_SIZE, inbuf, fpos, feofFlag, data, data_size, acc, pkt,
             consumed, pkts, yields, stalled>>
cfgVars == <<configs, hw_pix_fmt>>
hwVars  == <<container, rd, ret, cfgVars, res>>
vars == <<prog, pc, exitCode, diag, cause, engVars, obsVars, sink, decVars,
          flushing, i, hwVars>>

(* ------------------------------ parser ------------------------------- *)
\* Position in buf of the start code that ends the packet being assembled,
\* 0 when buf holds none.
FirstStart(a, buf) ==
    LET hits == {k \in 1..Len(buf) : buf[k] = StartCode /\ (k > 1 \/ a # <<>>)}
    IN  IF hits = {} THEN 0 ELSE CHOOSE k \in hits : \A m \in hits : k <= m

\* av_parser_parse2(parser, c, &pkt->data, &pkt->size, data, data_size, ...):
\* the bytes up to the next packet start are consumed; a packet is emitted
\* when its end (the next start code) has been seen, otherwise the bytes are
\* kept in the parser.
av_parser_parse2(a, buf) ==
    LET k == FirstStart(a, buf)
    IN  IF k = 0
        THEN [ret |-> Len(buf), pkt |-> <<>>, acc |-> a \o buf]
        ELSE [ret |-> k - 1, pkt |-> a \o SubSeq(buf, 1, k - 1), acc |-> <<>>]

\* a call of av_parser_parse2 that consumes nothing and emits no packet
ParserStall(a) == [ret |-> 0, pkt |-> <<>>, acc |-> a]

(* ------------------------------ engine ------------------------------- *)
\* The engine accepts a submission: it creates g outputs for it, and makes
\* the r oldest buffered outputs available; the flush releases them all.
EngineAccept(isFlush, g, r) ==
    LET made == [k \in 1..g |-> produced + k]
        buf  == hidden \o made
    IN  /\ produced' = produced + g
        /\ flushed' = isFlush
        /\ IF isFlush
           THEN hidden' = <<>> /\ ready' = ready \o buf
           ELSE /\ r <= Len(buf)
                /\ ready' = ready \o SubSeq(buf, 1, r)
                /\ hidden' = SubSeq(buf, r + 1, Len(buf))
        /\ UNCHANGED frame_number

\* the outcome of a receive call that does not fail
Starved == "EAGAIN"
Exhausted == "EOF"
NoOutput == IF flushed THEN Exhausted ELSE Starved

(* ----------------------------- objects ------------------------------- *)
\* the reference-counted objects a pump or a read loop holds through one
\* pointer each: the packet payload, the two frames and the packed buffer
Kinds == {"pkt", "frame", "sw_frame", "buffer"}

\* av_read_frame / avcodec_receive_packet / av_frame_alloc / av_malloc store
\* a new object in pointer k; one still held through k is lost
Acquire(r, k) ==
    [r EXCEPT !.live[k] = "live", !.made[k] = @ + 1,
              !.leaked = @ + (IF r.live[k] = "live" THEN 1 ELSE 0)]

\* av_packet_unref / av_frame_free / av_freep on pointer k: the object is
\* released and the pointer reset; a reset pointer is left alone
Release(r, k) ==
    IF r.live[k] = "live"
    THEN [r EXCEPT !.live[k] = "null", !.freed[k] = @ + 1]
    ELSE r

\* the packet kept after it was written
av_packet_unref_missing(r) == r

\* av_packet_unref(pkt)
av_packet_unref(r) == Release(r, "pkt")

(* ------------------------------ exits -------------------------------- *)
\* a fatal condition has occurred
Fatal == cause # "none"

\* the kind of each failure of the set-up code of the three mains
StartupKind(o) ==
    CASE o \in {"codec", "parser", "devtype", "hwconfig"} -> "config"
      [] o \in {"context", "frame", "packet", "buffer"} -> "alloc"
      [] o \in {"fopen", "input", "streaminfo", "beststream"} -> "io"
      [] o = "hwinit" -> "device"
      [] OTHER -> "open"

\* fprintf(stderr, ...); exit(code)
Die(code, lines, kind) ==
    /\ pc' = "exited"
    /\ exitCode' = code
    /\ diag' = diag + lines
    /\ cause' = kind

(* ========================= decode program ============================ *)
\* memset(inbuf + INBUF_SIZE, 0, AV_INPUT_BUFFER_PADDING_SIZE)
ZeroPadding(b) ==
    [k \in DOMAIN b |-> IF k > INBUF_SIZE THEN 0 ELSE b[k]]

\* main, lines 78-131: codec, parser, context, frame, packet, open, fopen,
\* buffer set-up (the run starts with its arguments given)
decode_main_startup ==
    /\ prog = "decode" /\ pc = "start"
    /\ \E o \in {"ok", "codec", "parser", "context", "frame", "packet", "open",
                 "fopen"} :
        CASE o = "ok" ->
               /\ pc' = "loop"
               /\ inbuf' = ZeroPadding(inbuf)
               /\ UNCHANGED <<exitCode, diag, cause>>
          [] o = "packet" -> Die(1, 0, StartupKind(o)) /\ UNCHANGED inbuf
          [] OTHER -> Die(1, 1, StartupKind(o)) /\ UNCHANGED inbuf
    /\ UNCHANGED <<prog, engVars, obsVars, sink, input, INBUF_SIZE, fpos, feofFlag,
                   data, data_size, acc, pkt, consumed, pkts, yields, stalled,
                   flushing, i, hwVars>>

\* fread(inbuf, 1, INBUF_SIZE, f): the number of bytes read
ReadLen == Min(INBUF_SIZE, Len(input) - fpos)

\* the parser called with whatever fread returned
AfterReadNoBreak(n) == "parse"

\* if (!data_size) break; the flush at line 172 follows the loop
AfterRead(n) == IF n = 0 THEN "send" ELSE "parse"

\* main, lines 140-146 and 172: the loop test, one fread, and the break
decode_main_read ==
    /\ prog = "decode" /\ pc = "loop"
    /\ IF feofFlag
       THEN /\ pc' = "send" /\ flushing' = TRUE
            /\ UNCHANGED <<inbuf, fpos, feofFlag, data, data_size>>
       ELSE LET n == ReadLen
            IN  /\ inbuf' = [k \in DOMAIN inbuf |->
                               IF k <= n THEN input[fpos + k] ELSE inbuf[k]]
                /\ fpos' = fpos + n
                /\ feofFlag' = (n < INBUF_SIZE)
                /\ data_size' = n
                /\ data' = 0
                /\ pc' = AfterRead(n)
                /\ flushing' = (AfterRead(n) = "send")
    /\ UNCHANGED <<prog, exitCode, diag, cause, engVars, obsVars, sink, input,
                   INBUF_SIZE, acc, pkt, consumed, pkts, yields, stalled, i, hwVars>>

\* the bytes data[0 .. data_size) offered to the parser
Window == [k \in 1..data_size |-> inbuf[data + k]]

\* the cursor left where it was
AdvanceStuck(d, n) == d

\* data += ret; data_size -= ret
Advance(d, n) == d + n
Remaining(sz, n) == sz - n

\* the rest of the chunk dropped once a packet was decoded
AfterPacketDrop(sz) == "loop"

\* where main continues when decode() returns or is not called
AfterPacket(sz) == IF sz > 0 THEN "parse" ELSE "loop"

\* main, lines 147-168: one iteration of the inner loop up to the call of decode
decode_main_parse ==
    /\ prog = "decode" /\ pc = "parse"
    /\ \/ /\ Die(1, 1, "parse")
          /\ UNCHANGED <<data, data_size, acc, pkt, consumed, stalled>>
       \/ LET p == av_parser_parse2(acc, Window)
          IN  /\ data' = Advance(data, p.ret)
              /\ data_size' = Remaining(data_size, p.ret)
              /\ acc' = p.acc
              /\ pkt' = p.pkt
              /\ consumed' = consumed \o SubSeq(Window, 1, p.ret)
              /\ stalled' = FALSE
              /\ pc' = IF Len(p.pkt) # 0 THEN "send" ELSE AfterPacket(data_size')
              /\ UNCHANGED <<exitCode, diag, cause>>
       \/ \* the parser returns 0 and sets pkt->size to 0
          LET p == ParserStall(acc)
          IN  /\ data' = Advance(data, p.ret)
              /\ data_size' = Remaining(data_size, p.ret)
              /\ acc' = p.acc
              /\ pkt' = p.pkt
              /\ stalled' = ~stalled
              /\ pc' = AfterPacket(data_size')
              /\ UNCHANGED <<consumed, exitCode, diag, cause>>
    /\ UNCHANGED <<prog, engVars, obsVars, sink, input, INBUF_SIZE, inbuf, fpos,
                   feofFlag, pkts, yields, flushing, i, hwVars>>

\* the upstream input the program has not read yet
InputLeft ==
    CASE prog = "decode" -> Len(input) - fpos
      [] prog = "encode" -> NumFrames - i
      [] OTHER -> Len(container) - rd

\* bookkeeping of one avcodec_send_packet / avcodec_send_frame call
NoteSubmit ==
    /\ nsubmit' = nsubmit + 1
    /\ flushCount' = IF flushing THEN flushCount + 1 ELSE flushCount
    /\ lastSubmit' = IF flushing THEN "flush" ELSE "data"
    /\ flushLeft' = IF flushing THEN InputLeft ELSE flushLeft
    /\ lastCall' = "submit"
    /\ UNCHANGED <<nrecv, lastOutcome, eofSeen>>

\* bookkeeping of one avcodec_receive_frame / avcodec_receive_packet call
NoteReceive(outcome) ==
    /\ nrecv' = nrecv + 1
    /\ lastOutcome' = outcome
    /\ eofSeen' = (eofSeen \/ outcome = Exhausted)
    /\ lastCall' = "receive"
    /\ UNCHANGED <<nsubmit, flushCount, lastSubmit, flushLeft>>

\* decode, lines 38-42: avcodec_send_packet and its check
decode_send ==
    /\ prog = "decode" /\ pc = "send"
    /\ NoteSubmit
    /\ \/ /\ Die(1, 1, "submit")
          /\ UNCHANGED <<engVars, pkts, yields>>
       \/ /\ ~flushed
          /\ \E g \in 0..(IF flushing THEN 0 ELSE MaxGen), r \in 0..(Len(hidden) + MaxGen) :
                EngineAccept(flushing, g, r)
          /\ pkts' = IF flushing THEN pkts ELSE Append(pkts, pkt)
          /\ yields' = Append(yields, Len(ready') - Len(ready))
          /\ pc' = "recv"
          /\ UNCHANGED <<exitCode, diag, cause>>
    /\ UNCHANGED <<prog, sink, input, INBUF_SIZE, inbuf, fpos, feofFlag, data,
                   data_size, acc, pkt, consumed, stalled, flushing, i, hwVars>>

\* the artifact named after the number of the submission instead
ArtifactByCall(n, f) == [idx |-> nsubmit, frame |-> f]

\* the artifact written for a frame: "<filename>-<frame_number>", with
\* n = dec_ctx->frame_number
Artifact(n, f) == [idx |-> n, frame |-> f]

\* the end of the flush drain taken for the end of a packet's drain
DrainEndAgain == AfterPacket(data_size)

\* where decode() goes after a receive call that produced no frame: back to
\* main, which goes on with the chunk or, after the flush, cleans up
DrainEnd == IF flushing THEN "cleanup" ELSE AfterPacket(data_size)

\* one frame per call: an `if` in place of the `while`
AfterFrameReturn == DrainEnd

\* while (ret >= 0): after a frame was saved the drain loop receives again
AfterFrame == "recv"

\* decode, lines 44-66: one iteration of the drain loop
decode_receive ==
    /\ prog = "decode" /\ pc = "recv"
    /\ \/ /\ NoteReceive("error")
          /\ Die(1, 1, "drain")
          /\ UNCHANGED <<engVars, sink>>
       \/ /\ ready # <<>>
          /\ NoteReceive("frame")
          /\ frame_number' = frame_number + 1
          /\ ready' = Tail(ready)
          /\ sink' = Append(sink, Artifact(frame_number', Head(ready)))
          /\ pc' = AfterFrame
          /\ UNCHANGED <<hidden, produced, flushed, exitCode, diag, cause>>
       \/ /\ ready = <<>>
          /\ NoteReceive(NoOutput)
          /\ pc' = DrainEnd
          /\ UNCHANGED <<engVars, sink, exitCode, diag, cause>>
    /\ UNCHANGED <<prog, decVars, flushing, i, hwVars>>

\* main, lines 174-183: close the file, release, return 0
decode_main_cleanup ==
    /\ prog = "decode" /\ pc = "cleanup"
    /\ pc' = "returned"
    /\ exitCode' = 0
    /\ UNCHANGED <<prog, diag, cause, engVars, obsVars, sink, decVars, flushing, i,
                   hwVars>>

(* ========================= encode program ============================ *)
\* another MPEG start code in place of the sequence end code
endcodeOther == <<0, 0, 1, 185>>

\* uint8_t endcode[] = {0, 0, 1, 0xb7}
endcode == <<0, 0, 1, 183>>

\* main, lines 69-138: codec, context, open, fopen, packet, frame, frame
\* buffer (the run starts with its arguments given)
encode_main_startup ==
    /\ prog = "encode" /\ pc = "start"
    /\ \E o \in {"ok", "codec", "context", "open", "fopen", "packet", "frame",
                 "buffer"} :
        CASE o = "ok" -> pc' = "frames" /\ UNCHANGED <<exitCode, diag, cause>>
          [] o = "packet" -> Die(1, 0, StartupKind(o))
          [] OTHER -> Die(1, 1, StartupKind(o))
    /\ UNCHANGED <<prog, engVars, obsVars, sink, decVars, flushing, i, hwVars>>

\* the loop stopping one frame early
LoopTestOffByOne == i < NumFrames - 1

\* for (i = 0; i < 25; i++)
LoopTest == i < NumFrames

\* main, lines 141-162 and 166: the loop test, the dummy image with pts = i,
\* and the call of encode with the frame or with NULL
encode_main_frame ==
    /\ prog = "encode" /\ pc = "frames"
    /\ pc' = "send"
    /\ flushing' = ~LoopTest
    /\ UNCHANGED <<prog, exitCode, diag, cause, engVars, obsVars, sink, decVars, i,
                   hwVars>>

\* encode, lines 22-30: avcodec_send_frame and its check
encode_send ==
    /\ prog = "encode" /\ pc = "send"
    /\ NoteSubmit
    /\ \/ /\ Die(1, 1, "submit")
          /\ UNCHANGED engVars
       \/ /\ ~flushed
          /\ \E g \in 0..(IF flushing THEN 0 ELSE MaxGen), r \in 0..(Len(hidden) + MaxGen) :
                EngineAccept(flushing, g, r)
          /\ pc' = "recv"
          /\ UNCHANGED <<exitCode, diag, cause>>
    /\ UNCHANGED <<prog, sink, decVars, flushing, i, hwVars>>

\* fwrite(pkt->data, 1, pkt->size, outfile)
WritePacket(out, p) == Append(out, [packet |-> p])

\* encode, lines 32-49: one iteration of the drain loop; on return main goes
\* to the next frame (i++) or, after the flush, to the trailer
encode_receive ==
    /\ prog = "encode" /\ pc = "recv"
    /\ \/ /\ NoteReceive("error")
          /\ Die(1, 1, "drain")
          /\ UNCHANGED <<engVars, sink, i, res>>
       \/ /\ ready # <<>>
          /\ NoteReceive("packet")
          /\ ready' = Tail(ready)
          /\ sink' = WritePacket(sink, Head(ready))
          /\ res' = av_packet_unref(Acquire(res, "pkt"))
          /\ pc' = "recv"
          /\ UNCHANGED <<hidden, produced, flushed, frame_number, exitCode, diag,
                         cause, i>>
       \/ /\ ready = <<>>
          /\ NoteReceive(NoOutput)
          /\ IF flushing
             THEN pc' = "trailer" /\ UNCHANGED i
             ELSE pc' = "frames" /\ i' = i + 1
          /\ UNCHANGED <<engVars, sink, exitCode, diag, cause, res>>
    /\ UNCHANGED <<prog, decVars, flushing, container, rd, ret, cfgVars>>

\* the trailer forgotten
WriteTrailerNone(out) == out

\* fwrite(endcode, 1, sizeof(endcode), f)
WriteTrailer(out) == out \o [k \in 1..Len(endcode) |-> [byte |-> endcode[k]]]

\* the bytes of one packet in the output file: a start code, then the payload
PacketBytes(p) == <<StartCode, 0>>

\* the byte stream of a file the encode program wrote
RECURSIVE FileBytes(_)
FileBytes(out) ==
    IF out = <<>> THEN <<>>
    ELSE LET e == Head(out)
         IN  (IF "packet" \in DOMAIN e THEN PacketBytes(e.packet) ELSE <<e.byte>>)
                 \o FileBytes(Tail(out))

\* what a run of the encode program writes when the encoder gives n packets
RECURSIVE EncodeWrites(_)
EncodeWrites(n) ==
    IF n = 0 THEN <<>> ELSE WritePacket(EncodeWrites(n - 1), n)

EncodedFile(n) == FileBytes(WriteTrailer(EncodeWrites(n)))

\* main, lines 169-179: the trailer, fclose, release, return 0
encode_main_trailer ==
    /\ prog = "encode" /\ pc = "trailer"
    /\ sink' = WriteTrailer(sink)
    /\ pc' = "returned"
    /\ exitCode' = 0
    /\ UNCHANGED <<prog, diag, cause, engVars, obsVars, decVars, flushing, i, hwVars>>

(* ===================== hardware decode program ======================= *)
\* the exit status the shell sees for a value returned from main
ExitStatus(v) == v % 256

\* the index av_find_best_stream returned
video_stream == 0

\* the device type av_hwdevice_find_type_by_name(argv[1]) returned
type == "cuda"

\* one AVCodecHWConfig
HWConfig(m, t, f) == [methods |-> m, device_type |-> t, pix_fmt |-> f]

\* the configuration tables avcodec_get_hw_config(decoder, i) enumerates,
\* for the decoders tried: none, a match at index 2 behind a configuration
\* of another device and one of another method and ahead of a second match,
\* and no match among two
HwConfigTables ==
    { <<>>,
      << HWConfig({"HW_DEVICE_CTX"}, "vaapi", "vaapi"),
         HWConfig({"INTERNAL"}, "cuda", "nv12"),
         HWConfig({"HW_DEVICE_CTX", "INTERNAL"}, "cuda", "cuda"),
         HWConfig({"HW_DEVICE_CTX"}, "cuda", "nv12") >>,
      << HWConfig({"HW_DEVICE_CTX"}, "vaapi", "vaapi"),
         HWConfig({"INTERNAL"}, "cuda", "cuda") >> }

\* the pixel formats the engine gives its frames
FrameFormats == {"cuda", "nv12"}

\* main, lines 149-182: device type, container, stream information, the
\* video stream and its decoder (the run starts with its arguments given);
\* every failure is a return of -1
hw_main_startup ==
    /\ prog = "hwdecode" /\ pc = "start"
    /\ \E o \in {"ok", "devtype", "input", "streaminfo", "beststream"} :
        IF o = "ok"
        THEN /\ pc' = "config"
             /\ configs' \in HwConfigTables
             /\ UNCHANGED <<exitCode, diag, cause>>
        ELSE /\ Die(ExitStatus(-1), 1, StartupKind(o))
             /\ UNCHANGED configs
    /\ i' = 0
    /\ UNCHANGED <<prog, engVars, obsVars, sink, decVars, flushing, container, rd, ret,
                   hw_pix_fmt, res>>

\* the device type alone compared
ConfigMatchesType(config) == config.device_type = type

\* config->methods & AV_CODEC_HW_CONFIG_METHOD_HW_DEVICE_CTX &&
\* config->device_type == type
ConfigMatches(config) ==
    "HW_DEVICE_CTX" \in config.methods /\ config.device_type = type

\* main, lines 189-203: one iteration of for (i = 0;; i++)
hw_main_config ==
    /\ prog = "hwdecode" /\ pc = "config"
    /\ IF i >= Len(configs)
       THEN /\ Die(ExitStatus(-1), 1, StartupKind("hwconfig"))
            /\ UNCHANGED <<i, hw_pix_fmt>>
       ELSE IF ConfigMatches(configs[i + 1])
       THEN /\ hw_pix_fmt' = configs[i + 1].pix_fmt
            /\ pc' = "init"
            /\ UNCHANGED <<i, exitCode, diag, cause>>
       ELSE /\ i' = i + 1
            /\ UNCHANGED <<pc, hw_pix_fmt, exitCode, diag, cause>>
    /\ UNCHANGED <<prog, engVars, obsVars, sink, decVars, flushing, container, rd, ret,
                   configs, res>>

\* main, lines 206-225: avcodec_alloc_context3, avcodec_parameters_to_context,
\* hw_decoder_init, avcodec_open2, fopen of the output file; a failure is a
\* return of AVERROR(ENOMEM) or -1 with what was set up left as it is
hw_main_init ==
    /\ prog = "hwdecode" /\ pc = "init"
    /\ \E o \in {"ok", "context", "params", "hwinit", "open"} :
        CASE o = "ok" ->
               /\ pc' = "loop"
               /\ res' = [res EXCEPT !.ctx = "open", !.dev = "held", !.out = "open"]
               /\ UNCHANGED <<exitCode, diag, cause>>
          [] o = "context" ->
               Die(ExitStatus(-12), 0, StartupKind(o)) /\ UNCHANGED res
          [] o = "params" ->
               /\ Die(ExitStatus(-1), 0, StartupKind(o))
               /\ res' = [res EXCEPT !.ctx = "allocated"]
          [] o = "hwinit" ->
               /\ Die(ExitStatus(-1), 1, StartupKind(o))
               /\ res' = [res EXCEPT !.ctx = "allocated"]
          [] o = "open" ->
               /\ Die(ExitStatus(-1), 1, StartupKind(o))
               /\ res' = [res EXCEPT !.ctx = "allocated", !.dev = "held"]
    /\ UNCHANGED <<prog, engVars, obsVars, sink, decVars, flushing, i, container, rd,
                   ret, cfgVars>>

\* every packet handed to the decoder
SelectedAny(index) == TRUE

\* video_stream == packet.stream_index
Selected(index) == video_stream = index

\* main, lines 228-236 and 239-241: the loop test, av_read_frame, the stream
\* filter, and the release of a packet that is not submitted
hw_main_read ==
    /\ prog = "hwdecode" /\ pc = "loop"
    /\ IF ret < 0
       THEN pc' = "send" /\ flushing' = TRUE /\ UNCHANGED <<rd, ret, res>>
       ELSE IF rd = Len(container)
       THEN pc' = "send" /\ flushing' = TRUE /\ ret' = -1 /\ UNCHANGED <<rd, res>>
       ELSE /\ rd' = rd + 1
            /\ ret' = 0
            /\ IF Selected(container[rd'])
               THEN pc' = "send" /\ res' = Acquire(res, "pkt")
               ELSE pc' = "loop" /\ res' = av_packet_unref(Acquire(res, "pkt"))
            /\ UNCHANGED flushing
    /\ UNCHANGED <<prog, exitCode, diag, cause, engVars, obsVars, sink, decVars, i,
                   container, cfgVars>>

\* return from decode_write to main, r the value returned and held the
\* objects held at the return: ret = decode_write(...); av_packet_unref
DecodeWriteReturn(r, held) ==
    /\ ret' = r
    /\ res' = av_packet_unref(held)
    /\ pc' = IF flushing THEN "cleanup" ELSE "loop"

\* fprintf(stderr, ...); ret = <negative>; return ret (directly or by way of
\* the label fail)
DecodeWriteFail(r, kind, held) ==
    /\ DecodeWriteReturn(r, held)
    /\ diag' = diag + 1
    /\ cause' = IF Fatal THEN cause ELSE kind

\* decode_write, lines 59-63: avcodec_send_packet and its check
hw_send ==
    /\ prog = "hwdecode" /\ pc = "send"
    /\ NoteSubmit
    /\ pkts' = IF flushing THEN pkts ELSE Append(pkts, rd)
    /\ \/ /\ DecodeWriteFail(-1, "submit", res)
          /\ UNCHANGED engVars
       \/ /\ ~flushed
          /\ \E g \in 0..(IF flushing THEN 0 ELSE MaxGen), r \in 0..(Len(hidden) + MaxGen) :
                EngineAccept(flushing, g, r)
          /\ pc' = "recv"
          /\ UNCHANGED <<ret, diag, cause, res>>
    /\ UNCHANGED <<prog, exitCode, sink, input, INBUF_SIZE, inbuf, fpos, feofFlag,
                   data, data_size, acc, pkt, consumed, yields, stalled, flushing, i,
                   container, rd, cfgVars>>

\* every frame packed as it came from the engine
ResolveDirect(fmt) == [via |-> "direct", from |-> "frame"]

\* if (frame->format == hw_pix_fmt) { av_hwframe_transfer_data(sw_frame,
\* frame, 0); tmp_frame = sw_frame; } else tmp_frame = frame;
Resolve(fmt) ==
    IF fmt = hw_pix_fmt
    THEN [via |-> "transfer", from |-> "sw_frame"]
    ELSE [via |-> "direct", from |-> "frame"]

\* fwrite(buffer, 1, size, output_file) of the buffer packed from tmp_frame
WriteBuffer(out, f, fmt) ==
    Append(out, [frame |-> f, fmt |-> fmt, via |-> Resolve(fmt).via,
                 from |-> Resolve(fmt).from])

\* frame = av_frame_alloc(); sw_frame = av_frame_alloc()
AllocFrames(r) == Acquire(Acquire(r, "frame"), "sw_frame")

\* av_frame_free(&frame); av_frame_free(&sw_frame); return 0
FreeFrames(r) == Release(Release(r, "frame"), "sw_frame")

\* the label reached with the frames released only
FailLabelFrames(r) == FreeFrames(r)

\* fail: av_frame_free(&frame); av_frame_free(&sw_frame); av_freep(&buffer)
FailLabel(r) == Release(FreeFrames(r), "buffer")

\* decode_write, lines 65-130: one iteration of the drain loop
hw_receive ==
    /\ prog = "hwdecode" /\ pc = "recv"
    /\ \/ \* av_frame_alloc fails, for frame or for sw_frame
          /\ \E first \in BOOLEAN :
                DecodeWriteFail(-12, "alloc",
                    FailLabel(IF first THEN res ELSE Acquire(res, "frame")))
          /\ UNCHANGED <<engVars, obsVars, sink>>
       \/ \* avcodec_receive_frame fails
          /\ NoteReceive("error")
          /\ DecodeWriteFail(-1, "drain", FailLabel(AllocFrames(res)))
          /\ UNCHANGED <<engVars, sink>>
       \/ \* no frame: AVERROR(EAGAIN) or AVERROR_EOF
          /\ ready = <<>>
          /\ NoteReceive(NoOutput)
          /\ DecodeWriteReturn(0, FreeFrames(AllocFrames(res)))
          /\ UNCHANGED <<engVars, sink, diag, cause>>
       \/ \* a frame
          /\ ready # <<>>
          /\ NoteReceive("frame")
          /\ frame_number' = frame_number + 1
          /\ ready' = Tail(ready)
          /\ UNCHANGED <<hidden, produced, flushed>>
          /\ \E fmt \in FrameFormats, o \in {"ok", "transfer", "malloc", "copy"} :
                CASE o = "ok" ->
                       /\ sink' = WriteBuffer(sink, Head(ready), fmt)
                       /\ res' = FailLabel(Acquire(AllocFrames(res), "buffer"))
                       /\ pc' = "recv"
                       /\ UNCHANGED <<ret, diag, cause>>
                  [] o = "transfer" ->
                       /\ Resolve(fmt).via = "transfer"
                       /\ DecodeWriteFail(-1, o, FailLabel(AllocFrames(res)))
                       /\ UNCHANGED sink
                  [] o = "malloc" ->
                       /\ DecodeWriteFail(-12, "alloc", FailLabel(AllocFrames(res)))
                       /\ UNCHANGED sink
                  [] o = "copy" ->
                       /\ DecodeWriteFail(-1, o,
                              FailLabel(Acquire(AllocFrames(res), "buffer")))
                       /\ UNCHANGED sink
    /\ UNCHANGED <<prog, exitCode, decVars, flushing, i, container, rd, cfgVars>>

\* the device released first
TeardownDeviceFirst == <<"out", "dev", "ctx", "input">>

\* lines 244-248: fclose(output_file); avcodec_free_context(&decoder_ctx);
\* avformat_close_input(&input_ctx); av_buffer_unref(&hw_device_ctx)
Teardown == <<"out", "ctx", "input", "dev">>

\* main, lines 244-250: the releases in their order, return 0
hw_main_cleanup ==
    /\ prog = "hwdecode" /\ pc = "cleanup"
    /\ pc' = "returned"
    /\ exitCode' = 0
    /\ res' = [res EXCEPT !.ctx = "freed", !.dev = "released", !.out = "closed",
                          !.log = Teardown]
    /\ UNCHANGED <<prog, diag, cause, engVars, obsVars, sink, decVars, flushing, i,
                   container, rd, ret, cfgVars>>

(* ============================ the system ============================= *)
Streams == SeqsUpTo(Byte, MaxLen)

Init ==
    /\ prog \in {"decode", "encode", "hwdecode"}
    /\ pc = "start"
    /\ exitCode = -99
    /\ diag = 0
    /\ cause = "none"
    /\ hidden = <<>> /\ ready = <<>> /\ produced = 0 /\ flushed = FALSE
    /\ frame_number = 0
    /\ nsubmit = 0 /\ nrecv = 0 /\ flushCount = 0 /\ lastSubmit = "none"
    /\ flushLeft = 0 /\ lastOutcome = "none" /\ lastCall = "none" /\ eofSeen = FALSE
    /\ sink = <<>>
    /\ IF prog = "decode"
       THEN /\ input \in Streams \cup {EncodedFile(n) : n \in 1..MaxTrip}
            /\ INBUF_SIZE \in 1..MaxInbuf
            /\ inbuf \in [1..(INBUF_SIZE + AV_INPUT_BUFFER_PADDING_SIZE) -> Byte]
       ELSE /\ input = <<>>
            /\ INBUF_SIZE = 1
            /\ inbuf = [k \in 1..(1 + AV_INPUT_BUFFER_PADDING_SIZE) |-> 0]
    /\ fpos = 0 /\ feofFlag = FALSE /\ data = 0 /\ data_size = 0
    /\ acc = <<>> /\ pkt = <<>> /\ flushing = FALSE
    /\ consumed = <<>> /\ pkts = <<>> /\ yields = <<>> /\ stalled = FALSE
    /\ i = 0
    /\ IF prog = "hwdecode"
       THEN container \in SeqsUpTo({0, 1}, MaxPkts)
       ELSE container = <<>>
    /\ rd = 0 /\ ret = 0
    /\ configs = <<>>
    /\ hw_pix_fmt = "yuv420p"
    /\ res = [live |-> [k \in Kinds |-> "null"], made |-> [k \in Kinds |-> 0],
              freed |-> [k \in Kinds |-> 0], leaked |-> 0,
              ctx |-> "none", dev |-> "none", out |-> "none", log |-> <<>>]

Next ==
    \/ decode_main_startup
    \/ decode_main_read
    \/ decode_main_parse
    \/ decode_send
    \/ decode_receive
    \/ decode_main_cleanup
    \/ encode_main_startup
    \/ encode_main_frame
    \/ encode_send
    \/ encode_receive
    \/ encode_main_trailer
    \/ hw_main_startup
    \/ hw_main_config
    \/ hw_main_init
    \/ hw_main_read
    \/ hw_send
    \/ hw_receive
    \/ hw_main_cleanup

Spec == Init /\ [][Next]_vars

\* the decode program alone, running without pause: main is one thread, so
\* whenever it has a next step it takes one
DecodeNext ==
    \/ decode_main_startup
    \/ decode_main_read
    \/ decode_main_parse
    \/ decode_send
    \/ decode_receive
    \/ decode_main_cleanup

DecodeInit == Init /\ prog = "decode"

DecodeRun == DecodeInit /\ [][DecodeNext]_vars /\ WF_vars(DecodeNext)

(* ============================== claims =============================== *)
\* a run that completed: main ran to its end and no fatal condition occurred
Completed == pc = "returned" /\ ~Fatal

Decoders == {"decode", "hwdecode"}

\* C1: drain-completeness of the decode pumps.  As long as no fatal
\* condition occurred, every frame the engine made available has been
\* retrieved whenever the pump is not inside a drain (so none is left behind
\* when a drain stops on Starved), every frame created is either written,
\* available or still buffered, and when the run has completed the number of
\* frames written to the sink equals the number the engine produced.
DrainComplete ==
    (prog \in Decoders /\ ~Fatal) =>
        /\ (pc # "recv" => ready = <<>>)
        /\ Len(sink) + Len(ready) + Len(hidden) = produced
        /\ (pc = "returned" => Len(sink) = produced /\ hidden = <<>>)

\* three packets whose frames the engine all held back until the flush
DrainCompleteWitness ==
    /\ prog = "decode" /\ Completed
    /\ yields = <<0, 0, 0, 3>>
    /\ Len(sink) = 3

\* C2: decode sink ordering and naming.  The k-th artifact written holds the
\* k-th frame the engine produced and carries the index k, which is the
\* engine's frame_number at the retrieval; indices are strictly increasing
\* over the run; in the scenario 0, 2, 0 frames for three packets and 1 for
\* the flush, exactly the artifacts 1, 2, 3 are written in that order.
SinkOrdered ==
    prog = "decode" =>
        /\ Len(sink) = frame_number
        /\ \A k \in 1..Len(sink) : sink[k].idx = k /\ sink[k].frame = k
        /\ \A k \in 1..(Len(sink) - 1) : sink[k].idx < sink[k + 1].idx
        /\ (pc = "returned" /\ yields = <<0, 2, 0, 1>>)
              => [k \in 1..Len(sink) |-> sink[k].idx] = <<1, 2, 3>>

SinkOrderedWitness ==
    /\ prog = "decode" /\ Completed
    /\ Len(pkts) = 3
    /\ yields = <<0, 2, 0, 1>>
    /\ Len(sink) = 3

\* C3: flush protocol.  While no fatal condition has occurred, a flush signal
\* is sent at most once, only when no upstream input is left, and nothing is
\* submitted after it; a run that completed sent exactly one, its drain
\* emptied the engine and ended with Exhausted.
FlushProtocol ==
    /\ (~Fatal /\ flushCount > 0) =>
           flushCount = 1 /\ flushLeft = 0 /\ lastSubmit = "flush"
    /\ Completed =>
           /\ flushCount = 1
           /\ flushed
           /\ lastOutcome = Exhausted
           /\ hidden = <<>> /\ ready = <<>>

FlushProtocolWitness ==
    /\ prog = "hwdecode" /\ Completed
    /\ rd = 3 /\ nsubmit >= 3
    /\ Len(sink) >= 2

\* The packets the main loop of the decode program gets from the parser when
\* it reads the stream in chunks of c bytes: the inner loop over one chunk...
RECURSIVE ParseChunk(_, _)
ParseChunk(a, buf) ==
    IF buf = <<>> THEN [acc |-> a, out |-> <<>>]
    ELSE LET p    == av_parser_parse2(a, buf)
             rest == ParseChunk(p.acc, SubSeq(buf, p.ret + 1, Len(buf)))
         IN  [acc |-> rest.acc,
              out |-> (IF Len(p.pkt) # 0 THEN <<p.pkt>> ELSE <<>>) \o rest.out]

\* ... and the outer loop over the chunks
RECURSIVE PacketsOf(_, _, _)
PacketsOf(a, stream, c) ==
    IF stream = <<>> THEN <<>>
    ELSE LET n == Min(c, Len(stream))
             r == ParseChunk(a, SubSeq(stream, 1, n))
         IN  r.out \o PacketsOf(r.acc, SubSeq(stream, n + 1, Len(stream)), c)

\* C4: chunking-invariance.  The packets a completed decode run submitted,
\* reading with chunk size INBUF_SIZE, are the packets obtained with every
\* other chunk size, from 1 up to the whole stream in one chunk.
ChunkingInvariant ==
    (prog = "decode" /\ Completed) =>
        \A c \in 1..(MaxLen + 1) : pkts = PacketsOf(<<>>, input, c)

\* a packet that straddles a chunk boundary
ChunkingInvariantWitness ==
    /\ prog = "decode" /\ Completed
    /\ INBUF_SIZE = 2
    /\ input = <<0, 1, 0, 1>>
    /\ pkts = << <<0>>, <<1, 0>> >>

\* C5: parse-cursor advance.  The bytes offered to the parser are always the
\* not yet consumed rest of the bytes read, the bytes consumed so far are a
\* prefix of the input in order, the next chunk is read only when nothing of
\* the current one is left, and a completed run has consumed the whole input.
CursorAdvance ==
    prog = "decode" =>
        /\ data_size >= 0 /\ data_size <= fpos
        /\ consumed = SubSeq(input, 1, fpos - data_size)
        /\ (pc = "parse" =>
               /\ data_size > 0
               /\ Window = SubSeq(input, fpos - data_size + 1, fpos))
        /\ (pc = "loop" => data_size = 0)
        /\ (Completed => consumed = input)

\* a chunk the parser was called on three times
CursorAdvanceWitness ==
    /\ prog = "decode" /\ Completed
    /\ INBUF_SIZE = 3
    /\ input = <<1, 1, 1, 0>>
    /\ Len(pkts) = 2
    /\ consumed = input

\* C6: zero-filled lookahead padding.  At every call of the parser the
\* AV_INPUT_BUFFER_PADDING_SIZE bytes after the last logical byte of the data
\* passed to it are zero.
PaddingZeroed ==
    (prog = "decode" /\ pc = "parse") =>
        \A k \in 1..AV_INPUT_BUFFER_PADDING_SIZE : inbuf[data + data_size + k] = 0

\* the packets 1..n as written to the output file
PacketsWritten(n) == [k \in 1..n |-> [packet |-> k]]

\* C7: encode trailer.  Until main has returned the output holds the
\* retrieved packets in retrieval order and no trailer; when it has returned
\* the output is all packets the encoder produced followed by the four bytes
\* 00 00 01 B7, written after the flush drain ended with Exhausted.
EncodeTrailer ==
    prog = "encode" =>
        IF pc = "returned"
        THEN /\ sink = PacketsWritten(produced)
                         \o <<[byte |-> 0], [byte |-> 0], [byte |-> 1], [byte |-> 183]>>
             /\ lastSubmit = "flush" /\ lastOutcome = Exhausted
        ELSE sink = PacketsWritten(Len(sink))

EncodeTrailerWitness ==
    /\ prog = "encode" /\ pc = "returned"
    /\ produced >= 3
    /\ Len(sink) = produced + 4

\* C8: fatal conditions stop the stream.  Once a fatal condition has
\* occurred nothing more is submitted to the engine and nothing more is
\* written to the sink.
FatalStops ==
    [][Fatal => (nsubmit' = nsubmit /\ sink' = sink)]_vars

\* the fatal conditions the exit-code rule lists: configuration error, parse
\* failure, submit rejection, fatal drain outcome, transfer failure
ListedFatal == {"config", "parse", "submit", "drain", "transfer"}

\* C9: exit code.  A terminated program has exit code 0 exactly when the run
\* completed without a fatal condition, and exit code 1 with at least one
\* diagnostic line when one of the listed fatal conditions occurred.
ExitCodeContract ==
    pc \in {"returned", "exited"} =>
        /\ (exitCode = 0) <=> Completed
        /\ cause \in ListedFatal => (exitCode = 1 /\ diag > 0)

\* C10: Exhausted is terminal.  A receive call returns Exhausted only after
\* the flush signal was accepted, and once it has, no submit and no receive
\* call is made any more.
ExhaustedTerminal ==
    /\ [](eofSeen => (flushCount >= 1 /\ flushed))
    /\ [][eofSeen => (nsubmit' = nsubmit /\ nrecv' = nrecv)]_vars

ExhaustedTerminalWitness ==
    /\ eofSeen /\ pc = "returned"
    /\ prog = "decode"
    /\ nrecv >= 4

\* C11: the calls on the engine are made one at a time; every submission but
\* the first is made only after the drain of the previous submission ended
\* with Starved; after a receive call returned Starved the next call on the
\* engine is a submission; and a Starved outcome writes no diagnostic, sets no
\* failure and ends neither the pump nor the program with a non-zero value.
SubmitDrainAlternation ==
    [][/\ (nsubmit' - nsubmit) + (nrecv' - nrecv) \in {0, 1}
       /\ (nsubmit' > nsubmit /\ nsubmit > 0)
             => (lastCall = "receive" /\ lastOutcome = Starved)
       /\ (nrecv' > nrecv /\ lastCall = "receive") => lastOutcome # Starved
       /\ (nrecv' > nrecv /\ lastOutcome' = Starved)
             => /\ diag' = diag /\ cause' = cause /\ exitCode' = exitCode
                /\ pc' # "exited"
                /\ (prog = "hwdecode" => ret' = 0)]_vars

ZeroByteInput ==
    (prog = "decode" /\ input = <<>>) =>
        /\ pc # "parse" /\ consumed = <<>> /\ acc = <<>>
        /\ pkts = <<>> /\ nsubmit = flushCount /\ flushCount <= 1
        /\ sink = <<>> /\ frame_number = 0
        /\ (pc = "cleanup" \/ Completed) =>
              /\ flushCount = 1 /\ nrecv = 1 /\ lastOutcome = Exhausted
              /\ yields = <<0>>
        /\ Completed => exitCode = 0

ZeroByteInputWitness ==
    /\ prog = "decode" /\ input = <<>>
    /\ pc = "returned" /\ exitCode = 0
    /\ flushCount = 1 /\ nrecv = 1 /\ sink = <<>>

\* C14: in the encode program every packet the encoder makes available, for
\* a frame or for the flush, is retrieved before the drain returns, written
\* to the output exactly once and in the order retrieved, and released
\* before the next receive call; over the whole run as many packets are
\* written as the encoder produced for the 25 frames and the flush.
EncodeDrain ==
    prog = "encode" =>
        LET n == Cardinality({k \in 1..Len(sink) : "packet" \in DOMAIN sink[k]})
        IN  /\ \A k \in 1..n : sink[k] = [packet |-> k]
            /\ res.live["pkt"] = "null" /\ res.leaked = 0
            /\ res.made["pkt"] = n /\ res.freed["pkt"] = n
            /\ ~Fatal =>
                  /\ pc # "recv" => ready = <<>>
                  /\ n + Len(ready) + Len(hidden) = produced
                  /\ pc \in {"trailer", "returned"} => (n = produced /\ i = NumFrames)

EncodeDrainWitness ==
    /\ prog = "encode" /\ Completed
    /\ i = NumFrames /\ produced = NumFrames
    /\ res.freed["pkt"] = NumFrames
    /\ nsubmit = NumFrames + 1

\* C15: in the hardware decode path the device-to-host transfer is invoked
\* for a frame if and only if the frame's pixel format equals the negotiated
\* hardware format; a frame of any other format is packed and written as it
\* is; and the buffer written is packed from the host-resident frame: the
\* transferred copy sw_frame for a device frame, the frame itself otherwise.
ResolverBranch ==
    (prog = "hwdecode" /\ pc \notin {"start", "config"}) =>
        /\ \A k \in 1..Len(sink) :
              /\ (sink[k].via = "transfer") <=> (sink[k].fmt = hw_pix_fmt)
              /\ sink[k].from = (IF sink[k].fmt = hw_pix_fmt THEN "sw_frame" ELSE "frame")
        /\ cause = "transfer" => hw_pix_fmt \in FrameFormats

ResolverBranchWitness ==
    /\ prog = "hwdecode" /\ Completed
    /\ Len(sink) = 2
    /\ sink[1].fmt = "cuda" /\ sink[1].via = "transfer" /\ sink[1].from = "sw_frame"
    /\ sink[2].fmt = "nv12" /\ sink[2].via = "direct" /\ sink[2].from = "frame"

\* the indices of the configurations that include the device-context method
\* and whose device type is the requested one
Matching ==
    {k \in 1..Len(configs) :
        "HW_DEVICE_CTX" \in configs[k].methods /\ configs[k].device_type = type}

\* C16: the negotiated hardware pixel format is that of the lowest-index
\* configuration of the codec that includes the device-context method and has
\* the requested device type; once set it never changes; and when no
\* configuration matches the program ends at start-up, before the engine is
\* opened, before a packet is read and before the output file is created.
HwNegotiation ==
    /\ [](( prog = "hwdecode" /\ pc \notin {"start", "config"} /\ Matching # {}) =>
             \E k \in Matching :
                /\ \A m \in Matching : k <= m
                /\ i = k - 1
                /\ hw_pix_fmt = configs[k].pix_fmt)
    /\ [][(prog = "hwdecode" /\ pc \notin {"start", "config"}) =>
             hw_pix_fmt' = hw_pix_fmt]_vars
    /\ []((prog = "hwdecode" /\ pc \notin {"start", "config"} /\ Matching = {}) =>
             /\ pc = "exited" /\ exitCode # 0
             /\ res.ctx = "none" /\ res.dev = "none" /\ res.out = "none"
             /\ rd = 0 /\ nsubmit = 0 /\ sink = <<>>)

HwNegotiationWitness ==
    /\ prog = "hwdecode" /\ Completed
    /\ Len(configs) = 4 /\ i = 2 /\ hw_pix_fmt = "cuda"
    /\ rd = 2 /\ res.out = "closed"

\* a start-up that ended because no configuration matched
HwNegotiationNoMatch ==
    /\ prog = "hwdecode" /\ pc = "exited"
    /\ Len(configs) = 2 /\ i = 2 /\ Matching = {}
    /\ res.out = "none"

\* the positions among the first n packets of the container that belong to
\* the selected video stream, in order
RECURSIVE VideoPackets(_)
VideoPackets(n) ==
    IF n = 0 THEN <<>>
    ELSE VideoPackets(n - 1) \o (IF container[n] = video_stream THEN <<n>> ELSE <<>>)

\* C17: in the hardware decode path a packet read from the container is
\* submitted to the engine if and only if its stream index is the selected
\* video stream index; a packet of another stream never reaches the engine
\* and does not stop the read loop; and every packet read is released exactly
\* once, after its submit/drain has returned and before the next read.
StreamFilter ==
    /\ [](prog = "hwdecode" =>
            LET pending == pc = "send" /\ ~flushing
                inPump == pc \in {"send", "recv"} /\ ~flushing
            IN  /\ pkts = VideoPackets(IF pending THEN rd - 1 ELSE rd)
                /\ nsubmit = Len(pkts) + flushCount
                /\ res.leaked = 0
                /\ res.made["pkt"] = rd
                /\ res.freed["pkt"] = (IF inPump THEN rd - 1 ELSE rd)
                /\ res.live["pkt"] = (IF inPump THEN "live" ELSE "null")
                /\ inPump => container[rd] = video_stream)
    /\ [][(prog = "hwdecode" /\ rd' # rd /\ container[rd'] # video_stream) =>
             (pc' = "loop" /\ ret' >= 0 /\ nsubmit' = nsubmit)]_vars

StreamFilterWitness ==
    /\ prog = "hwdecode" /\ Completed
    /\ container = <<1, 0, 1>> /\ rd = 3
    /\ pkts = <<2>> /\ res.freed["pkt"] = 3

\* bytes a hold a complete packet that only the end of the input delimits: a
\* start code followed by payload bytes
CompletePacket(a) ==
    /\ Len(a) >= 2
    /\ a[1] = StartCode
    /\ \A k \in 2..Len(a) : a[k] \in Byte /\ a[k] # StartCode

\* C18: when the decode program completes normally the parser held no
\* unsubmitted bytes of a complete packet when the flush signal was sent:
\* every complete packet of the input, the last one that only the end of the
\* input delimits included, was emitted by the parser and submitted to the
\* engine before the flush.
NoPacketLeftInParser ==
    (prog = "decode" /\ Completed) => ~CompletePacket(acc)

\* the objects one drain iteration of decode_write allocates
PumpObjects == {"frame", "sw_frame", "buffer"}

\* C19: in the hardware decode pump, at the start of every drain iteration
\* and on every way out of decode_write (Starved or Exhausted, a failed
\* receive, transfer, allocation or copy), every frame, host copy and packed
\* buffer allocated so far has been released exactly once: none is lost while
\* held, none is still held; and the device context is released only after
\* the engine handle was destroyed, with no frame live.
PumpLifecycle ==
    prog = "hwdecode" =>
        /\ res.leaked = 0
        /\ \A k \in PumpObjects :
              res.live[k] = "null" /\ res.freed[k] = res.made[k]
        /\ res.made["frame"] >= nrecv /\ res.made["sw_frame"] >= nrecv
        /\ res.made["buffer"] >= Len(sink)
        /\ res.dev = "released" =>
              /\ res.ctx = "freed"
              /\ \E a, b \in 1..Len(res.log) :
                    a < b /\ res.log[a] = "ctx" /\ res.log[b] = "dev"

PumpLifecycleWitness ==
    /\ prog = "hwdecode" /\ pc = "returned"
    /\ cause = "copy"
    /\ Len(sink) = 1 /\ res.made["buffer"] = 2 /\ res.freed["buffer"] = 2
    /\ res.made["frame"] >= 3
    /\ res.dev = "released"

\* C20: every run of the decode program on a finite input, with an engine
\* that produces finitely many frames, eventually ends (main returns or the
\* program exits); in particular the inner parse loop over one chunk ends,
\* also after a parse call that consumed 0 bytes and emitted no packet, and
\* every drain loop ends.
DecodeTerminates ==
    /\ <>(pc \in {"returned", "exited"})
    /\ (pc = "parse") ~> (pc \in {"loop", "exited"})
    /\ (pc = "recv") ~> (pc # "recv")

====
